---- MODULE Spec2Model ----
(***************************************************************************)
(* Model of common/scoretracker.py (class ScoreTracker): the message       *)
(* handler of the score-server connection (_on_ws_open, _on_ws_message),   *)
(* the pending score it finalizes (last_score), and the submission         *)
(* threads (submit_score_with_screenshot) started by the hotkey or by the  *)
(* automatic mode.  Texts (scores, player labels) are sequences of         *)
(* one-character strings, so that parsing and formatting are computed.     *)
(***************************************************************************)
EXTENDS Integers, Sequences, FiniteSets, TLC

VARIABLES
    game_session_data,  \* self.game_session_data : rom -> (slot -> [score, ball])
    last_game_end,      \* self._last_game_end    : rom -> time.time() of the last accepted game_end
    last_score,         \* self.last_score        : [rom_name, score, timestamp]
    ws_connected_at,    \* self._ws_connected_at  : connection epoch, NoneInt before the first open
    ws_open,            \* the WebSocketApp of run_forever() is connected and dispatches messages
    now,                \* the clock (time.time(), datetime.now(), datetime.utcnow()), in seconds
    send_mode,          \* get_config()['send_mode']
    api_configured,     \* get_config()['api_url'] and ['api_key'] are both non-empty
    tasks,              \* the submission threads: position and locals of each
    handled,            \* number of inbound messages dispatched so far
    hist,               \* per rom, what has happened since its last accepted game_end (history)
    ev,                 \* the step taken last: operation, message, outcome, thread (history)
    enabled,            \* is_enabled(): the configuration enables tracking
    running,            \* self.running
    ws,                 \* self.ws: the thread whose WebSocketApp it refers to, 0 for None
    loops,              \* the threads that run _run_websocket: position, connection, sleep
    hotkeys,            \* the threads that run _run_hotkey_listener
    hotkey_listener,    \* self.hotkey_listener: the thread whose Listener it refers to, 0 for None
    stop_pc,            \* the caller of stop(): its position, and whether it has returned
    scan                \* the loop over a score list (lines 235-242) run by itself

\* the fields and threads of start(), stop() and _run_websocket
lifecycle == <<enabled, running, ws, loops, hotkeys, hotkey_listener, stop_pc>>

vars == <<game_session_data, last_game_end, last_score, ws_connected_at, ws_open, now,
          send_mode, api_configured, tasks, handled, hist, ev, lifecycle, scan>>

-----------------------------------------------------------------------------
(* Bounds of the model *)

MaxTicks == 2       \* the clock advances at most this many times
TickLen == 5        \* seconds per clock advance
StartTime == 100    \* the clock at construction
MaxMsgs == 3        \* inbound messages dispatched in one run
MaxTasks == 2       \* submission threads alive or finished in one run
MaxStarts == 2      \* calls of start() that find tracking enabled
MaxLen == 2         \* characters of a score text given to the score loop
MaxEntries == 2     \* entries of a score list given to the score loop

(* Program constants *)

DebounceWindow == 10   \* "if now - last < 10"
SettleDelay == 2       \* "time.sleep(2)" in auto_submit
ReconnectDelay == 10   \* "time.sleep(10)" in _run_websocket

-----------------------------------------------------------------------------
(* Python values *)

None == "None"          \* None where a str is expected (rom_name)
NoneInt == -1           \* None where a number is expected (score, timestamp, ball)
Missing == "<missing>"  \* a key that the JSON object does not have

EmptyDict == [k \in {} |-> 0]

DictPut(d, k, v) == [x \in (DOMAIN d) \cup {k} |-> IF x = k THEN v ELSE d[x]]

DictPop(d, k) == [x \in (DOMAIN d) \ {k} |-> d[x]]

DictGet(d, k, default) == IF k \in DOMAIN d THEN d[k] ELSE default

-----------------------------------------------------------------------------
(* Texts *)

Digits == <<"0", "1", "2", "3", "4", "5", "6", "7", "8", "9">>

IsDigit(c) == \E i \in 1..10 : Digits[i] = c

DigitVal(c) == (CHOOSE i \in 1..10 : Digits[i] = c) - 1

\* str.replace(c, '') for a one-character c
RemoveChar(s, c) == SelectSeq(s, LAMBDA x : x # c)

\* str.lstrip('0')
RECURSIVE LStripZeros(_)
LStripZeros(s) ==
    IF s # <<>> /\ Head(s) = "0" THEN LStripZeros(Tail(s)) ELSE s

\* str.strip(): leading and trailing blanks
RECURSIVE LStripBlanks(_)
LStripBlanks(s) ==
    IF s # <<>> /\ Head(s) = " " THEN LStripBlanks(Tail(s)) ELSE s

RECURSIVE RStripBlanks(_)
RStripBlanks(s) ==
    IF s # <<>> /\ s[Len(s)] = " " THEN RStripBlanks(SubSeq(s, 1, Len(s) - 1)) ELSE s

Strip(s) == RStripBlanks(LStripBlanks(s))

StartsWith(s, p) == Len(p) <= Len(s) /\ SubSeq(s, 1, Len(p)) = p

\* "p in s"
Contains(s, p) == \E i \in 1..(Len(s) + 1) : StartsWith(SubSeq(s, i, Len(s)), p)

\* str.replace(p, ''): every non-overlapping occurrence, left to right
RECURSIVE RemoveAll(_, _)
RemoveAll(s, p) ==
    IF s = <<>> THEN s
    ELSE IF StartsWith(s, p) THEN RemoveAll(SubSeq(s, Len(p) + 1, Len(s)), p)
    ELSE <<Head(s)>> \o RemoveAll(Tail(s), p)

\* the value of a run of decimal digits
RECURSIVE DigitsValue(_, _)
DigitsValue(s, acc) ==
    IF s = <<>> THEN acc ELSE DigitsValue(Tail(s), acc * 10 + DigitVal(Head(s)))

AllDigits(s) == s # <<>> /\ \A i \in 1..Len(s) : IsDigit(s[i])

\* int(text): blanks around, an optional sign, decimal digits; anything else raises
\* ValueError (ok = FALSE)
PyInt(text) ==
    LET s == Strip(text)
        signed == s # <<>> /\ Head(s) \in {"-", "+"}
        body == IF signed THEN Tail(s) ELSE s
    IN  IF AllDigits(body)
        THEN [ok |-> TRUE,
              val |-> IF signed /\ Head(s) = "-" THEN 0 - DigitsValue(body, 0)
                      ELSE DigitsValue(body, 0)]
        ELSE [ok |-> FALSE, val |-> 0]

\* str(n) for n >= 0
RECURSIVE PyStr(_)
PyStr(n) ==
    IF n < 10 THEN <<Digits[n + 1]>> ELSE PyStr(n \div 10) \o <<Digits[(n % 10) + 1]>>

\* f"{n:,}" for n >= 0: a comma before every group of three digits
RECURSIVE FormatThousands(_)
FormatThousands(n) ==
    IF n < 1000 THEN PyStr(n)
    ELSE LET r == n % 1000
             pad == IF r < 10 THEN <<"0", "0">> ELSE IF r < 100 THEN <<"0">> ELSE <<>>
         IN  FormatThousands(n \div 1000) \o <<",">> \o pad \o PyStr(r)

\* mutant of ParseScore: the separators are left in
ParseScoreKeepsSeparators(raw) ==
    LET t == LStripZeros(raw)
    IN  IF t = <<>> THEN [ok |-> TRUE, val |-> 0] ELSE PyInt(t)

\* int(str(raw_score).replace(',', '').replace('.', '').lstrip('0') or 0)
ParseScore(raw) ==
    LET t == LStripZeros(RemoveChar(RemoveChar(raw, ","), "."))
    IN  IF t = <<>> THEN [ok |-> TRUE, val |-> 0] ELSE PyInt(t)

\* p_label.replace("Player", "").strip() if "Player" in p_label else p_label
PlayerId(p_label) ==
    IF Contains(p_label, <<"P", "l", "a", "y", "e", "r">>)
    THEN Strip(RemoveAll(p_label, <<"P", "l", "a", "y", "e", "r">>))
    ELSE p_label

-----------------------------------------------------------------------------
(* Inbound messages (the JSON objects the score server sends) *)

T_10000 == <<"1", "0", ",", "0", "0", "0">>
T_25500 == <<"2", "5", ",", "5", "0", "0">>
T_000450 == <<"0", "0", "0", "4", "5", "0">>
T_abc == <<"a", "b", "c">>
T_0 == <<"0">>

L_Player1 == <<"P", "l", "a", "y", "e", "r", "1">>
L_Player2 == <<"P", "l", "a", "y", "e", "r", "2">>
L_Player_2 == <<"P", "l", "a", "y", "e", "r", " ", "2">>
L_2 == <<"2">>
L__2 == <<" ", "2">>

\* values of the 'scores' field together with 'current_ball' (NoneInt: no such key)
ScoresA == [scores |-> <<[player |-> L_Player1, score |-> T_10000],
                         [player |-> L_Player2, score |-> T_25500]>>,
            current_ball |-> 1]
ScoresB == [scores |-> <<[player |-> L_2, score |-> T_000450]>>, current_ball |-> 3]
ScoresC == [scores |-> <<[player |-> L_Player_2, score |-> T_abc],
                         [player |-> L_Player1, score |-> T_0],
                         [player |-> L__2, score |-> T_0]>>,
            current_ball |-> NoneInt]
NoScores == [scores |-> <<>>, current_ball |-> NoneInt]

\* the keys of game_session_data and _last_game_end the messages below can produce
RomIds == {"X", "", "unknown_rom"}

NoTimestamp == [fmt |-> "absent", t |-> 0]

\* values of the 'timestamp' field other than none, at clock t: one in the server's
\* format ("2026-02-11T08:43:44.982Z") and one without the fraction of a second,
\* both stamped one clock advance ago
Timestamps(t) == {[fmt |-> "frac", t |-> t - TickLen], [fmt |-> "nofrac", t |-> t - TickLen]}

Msg(ty, r, ts, rs, p) ==
    [type |-> ty, rom |-> r, timestamp |-> ts, reason |-> rs,
     scores |-> p.scores, current_ball |-> p.current_ball]

\* every type of message with every payload its handler reads, for a rom or without
\* the 'rom' key, and without timestamp
PlainMessages(r) ==
    {Msg(ty, r, NoTimestamp, "", NoScores) : ty \in {"table_loaded", "game_start", "other"}}
      \cup {Msg("game_end", r, NoTimestamp, "", p) : p \in {NoScores, ScoresB, ScoresC}}
      \cup {Msg("game_end", r, NoTimestamp, "plugin_unload", p) : p \in {NoScores, ScoresB}}
      \cup {Msg("current_scores", r, NoTimestamp, "", p) : p \in {ScoresA, ScoresB, ScoresC}}

\* every type of message with a timestamp
StampedMessages(r, t) ==
    UNION {{Msg(ty, r, ts, "", NoScores) : ty \in {"table_loaded", "game_start", "other"}}
             \cup {Msg("game_end", r, ts, "", ScoresB),
                   Msg("game_end", r, ts, "plugin_unload", NoScores),
                   Msg("current_scores", r, ts, "", ScoresA)} : ts \in Timestamps(t)}

\* messages whose 'rom' is the empty string
EmptyRomMessages ==
    {Msg("game_start", "", NoTimestamp, "", NoScores),
     Msg("current_scores", "", NoTimestamp, "", ScoresA),
     Msg("game_end", "", NoTimestamp, "", NoScores),
     Msg("game_end", "", NoTimestamp, "", ScoresB)}

\* the messages of the connection thread's specification, at clock t
TrackerMessages(t) ==
    PlainMessages("X") \cup PlainMessages(Missing) \cup StampedMessages("X", t)
      \cup EmptyRomMessages

\* the messages of the whole program's specification: two games that end with a
\* score, and a new start
SubmitMessages ==
    {Msg("game_end", "X", NoTimestamp, "", ScoresA),
     Msg("game_end", "X", NoTimestamp, "", ScoresB),
     Msg("game_end", Missing, NoTimestamp, "", ScoresB),
     Msg("game_start", "X", NoTimestamp, "", NoScores)}

NoMsg == [type |-> "none", rom |-> Missing, timestamp |-> NoTimestamp,
          reason |-> "", scores |-> <<>>, current_ball |-> NoneInt]

\* an entry of 'scores' that is not an object (a number, a text): it has no get()
NotADict == [player |-> <<"<not a dict>">>, score |-> <<>>]

\* a 'scores' field that is a number: it is true and cannot be iterated over
NotIterable == <<[player |-> <<"<number>">>, score |-> <<>>]>>

IsDictEntry(e) == "player" \notin DOMAIN e \/ e.player # NotADict.player

\* a 'scores' field whose entries are no objects, as [42] or the text "ab" are
ScoresNoDicts == [scores |-> <<NotADict, NotADict>>, current_ball |-> 1]

ScoresNumber == [scores |-> NotIterable, current_ball |-> 1]

\* a text that json.loads() rejects, and one it reads as a list
NotJson == [NoMsg EXCEPT !.type = "<not json>"]

NotAnObject == [NoMsg EXCEPT !.type = "<not an object>"]

\* the messages of the specification of malformed input: what does not decode,
\* what has an unknown type or scores of the wrong structure, and three well-formed
\* messages to find their traces by
MalformedMessages ==
    {NotJson, NotAnObject,
     Msg("other", "X", NoTimestamp, "", NoScores),
     Msg("game_end", "X", NoTimestamp, "", ScoresNoDicts),
     Msg("game_end", "X", NoTimestamp, "", ScoresNumber),
     Msg("current_scores", "X", NoTimestamp, "", ScoresNoDicts),
     Msg("current_scores", "X", NoTimestamp, "", ScoresNumber),
     Msg("current_scores", "X", NoTimestamp, "", ScoresA),
     Msg("game_end", "X", NoTimestamp, "", NoScores),
     Msg("game_start", "X", NoTimestamp, "", NoScores)}

\* datetime.strptime(msg_timestamp.replace('Z', ''), '%Y-%m-%dT%H:%M:%S.%f'):
\* ValueError (ok = FALSE) when the fraction is missing
Strptime(ts) ==
    IF ts.fmt = "frac" THEN [ok |-> TRUE, val |-> ts.t] ELSE [ok |-> FALSE, val |-> 0]

\* mutant of IsStale: the comparison turned round
IsStaleReversed(m, connected_at) ==
    /\ m.timestamp.fmt # "absent"
    /\ connected_at # NoneInt
    /\ m.timestamp.fmt = "frac"
    /\ m.timestamp.t > connected_at

\* lines 187-197: the message is older than the connection
IsStale(m, connected_at) ==
    /\ m.timestamp.fmt # "absent"
    /\ connected_at # NoneInt
    /\ Strptime(m.timestamp).ok
    /\ Strptime(m.timestamp).val < connected_at

\* data.get('rom', 'unknown_rom')
RomName(m) == IF m.rom = Missing THEN "unknown_rom" ELSE m.rom

-----------------------------------------------------------------------------
(* The pending score, the submission threads and the history variables *)

\* {'rom_name': None, 'score': None, 'timestamp': None}
EmptyScore == [rom_name |-> None, score |-> NoneInt, timestamp |-> NoneInt]

NoNote == [title |-> "", text |-> "", table |-> "", score |-> <<>>]

\* a thread that was never started.  due is history: the pending score that the
\* game_end which started the thread wrote at line 259
IdleTask == [pc |-> "idle", kind |-> "", wake |-> 0, rom |-> None, score |-> <<>>,
             success |-> FALSE, table |-> Missing, fmt |-> <<>>, shots |-> 0, posts |-> 0,
             notes |-> 0, note |-> NoNote, due |-> EmptyScore]

FreeTasks == {i \in 1..MaxTasks : tasks[i].pc = "idle"}

\* threading.Thread(target=..., daemon=True).start()
StartThread(ts, kind, pc, wake) ==
    LET i == CHOOSE i \in FreeTasks : \A j \in FreeTasks : i <= j
    IN  [ts EXCEPT ![i] = [IdleTask EXCEPT !.pc = pc, !.kind = kind, !.wake = wake]]

\* the thread of auto_submit (lines 271-276), started at time t by the game_end that
\* finalized best_score for rom
StartAuto(ts, rom, best_score, t) ==
    LET i == CHOOSE i \in FreeTasks : \A j \in FreeTasks : i <= j
    IN  [StartThread(ts, "auto", "sleep", t + SettleDelay) EXCEPT
            ![i].due = [rom_name |-> rom, score |-> best_score, timestamp |-> t]]

\* endAt: when the last game_end passed the debounce check; endStarts: the types of
\* the start messages handled since; prevEndAt, prevStarts: the same two as they
\* were when that game_end was handled; autoAt: when the last automatic submission
\* was scheduled; autoStarts: the types of the start messages handled since;
\* popped: the session that game_end removed (empty if there was none)
NoHist == [endAt |-> NoneInt, endStarts |-> {}, prevEndAt |-> NoneInt, prevStarts |-> {},
           autoAt |-> NoneInt, autoStarts |-> {}, popped |-> EmptyDict]

\* history: a start message of type ty was handled for rom
HistStart(h, rom, ty) ==
    [h EXCEPT ![rom] =
        [@ EXCEPT !.endStarts = IF h[rom].endAt = NoneInt THEN {} ELSE @ \cup {ty},
                  !.autoStarts = IF h[rom].autoAt = NoneInt THEN {} ELSE @ \cup {ty}]]

\* history: a game_end for rom passed the debounce check at time t
HistAccept(h, rom, t) ==
    [h EXCEPT ![rom].endAt = t, ![rom].endStarts = {},
              ![rom].prevEndAt = h[rom].endAt, ![rom].prevStarts = h[rom].endStarts,
              ![rom].popped = DictGet(game_session_data, rom, EmptyDict)]

\* history: an automatic submission was scheduled for rom at time t
HistAuto(h, rom, t) == [h EXCEPT ![rom].autoAt = t, ![rom].autoStarts = {}]

Event(op, m, res, t) == [op |-> op, m |-> m, res |-> res, t |-> t]

-----------------------------------------------------------------------------
(* _on_ws_message *)

\* mutant of IsDuplicate: the window taken for one second
IsDuplicateShortWindow(t, last) == t - last < 1

\* "if now - last < 10"
IsDuplicate(t, last) == t - last < DebounceWindow

\* mutant of BestOfList: the last score that parses wins, not the highest
RECURSIVE BestOfListLast(_, _)
BestOfListLast(entries, best) ==
    IF entries = <<>> THEN best
    ELSE LET p == ParseScore(Head(entries).score)
         IN  BestOfListLast(Tail(entries), IF p.ok THEN p.val ELSE best)

\* the loop of lines 235-242 and 246-253 over a list of entries
RECURSIVE BestOfList(_, _)
BestOfList(entries, best) ==
    IF entries = <<>> THEN best
    ELSE LET p == IF IsDictEntry(Head(entries)) THEN ParseScore(Head(entries).score)
                  ELSE [ok |-> FALSE, val |-> 0]
         IN  BestOfList(Tail(entries), IF p.ok /\ p.val > best THEN p.val ELSE best)

\* the values of a dict, as .items() yields them
RECURSIVE ItemsOf(_)
ItemsOf(d) ==
    IF DOMAIN d = {} THEN <<>>
    ELSE LET k == CHOOSE k \in DOMAIN d : TRUE IN <<d[k]>> \o ItemsOf(DictPop(d, k))

\* mutant of BestScore: the accumulated session comes first
BestScoreSessionFirst(m, sessions) ==
    LET rom == RomName(m)
    IN  IF rom \in DOMAIN sessions /\ DOMAIN sessions[rom] # {}
        THEN BestOfList(ItemsOf(sessions[rom]), 0)
        ELSE IF m.scores # <<>> THEN BestOfList(m.scores, 0)
        ELSE 0

\* lines 229-255: the payload's list if non-empty, else the accumulated session
BestScore(m, sessions) ==
    LET rom == RomName(m)
    IN  IF m.scores # <<>> THEN BestOfList(m.scores, 0)
        ELSE IF rom \in DOMAIN sessions /\ DOMAIN sessions[rom] # {}
             THEN BestOfList(ItemsOf(sessions[rom]), 0)
        ELSE 0

\* lines 286-297: upsert every entry of the payload
RECURSIVE UpdatePlayers(_, _, _)
UpdatePlayers(players, entries, ball) ==
    IF entries = <<>> THEN players
    ELSE UpdatePlayers(
            IF IsDictEntry(Head(entries))
            THEN DictPut(players, PlayerId(Head(entries).player),
                         [score |-> Head(entries).score, ball |-> ball])
            ELSE players,
            Tail(entries), ball)

\* lines 186-197: dropped as stale
DropStale(m) ==
    /\ IsStale(m, ws_connected_at)
    /\ ev' = Event("msg", m, "stale", 0)
    /\ UNCHANGED <<game_session_data, last_game_end, last_score, tasks, hist>>

\* mutant of GameStart: the debounce record is kept
GameStartKeepsDebounce(m) ==
    /\ ~IsStale(m, ws_connected_at)
    /\ m.type \in {"table_loaded", "game_start"}
    /\ game_session_data' = DictPut(game_session_data, RomName(m), EmptyDict)
    /\ hist' = HistStart(hist, RomName(m), m.type)
    /\ ev' = Event("msg", m, "start", 0)
    /\ UNCHANGED <<last_game_end, last_score, tasks>>

\* lines 202-207
GameStart(m) ==
    /\ ~IsStale(m, ws_connected_at)
    /\ m.type \in {"table_loaded", "game_start"}
    /\ game_session_data' = DictPut(game_session_data, RomName(m), EmptyDict)
    /\ last_game_end' = DictPop(last_game_end, RomName(m))
    /\ hist' = HistStart(hist, RomName(m), m.type)
    /\ ev' = Event("msg", m, "start", 0)
    /\ UNCHANGED <<last_score, tasks>>

\* mutant of GameEndUnload: the session is kept
GameEndUnloadKeepsSession(m) ==
    /\ ~IsStale(m, ws_connected_at)
    /\ m.type = "game_end"
    /\ m.reason = "plugin_unload"
    /\ ev' = Event("msg", m, "unload", 0)
    /\ UNCHANGED <<game_session_data, last_game_end, last_score, tasks, hist>>

\* lines 209-216
GameEndUnload(m) ==
    /\ ~IsStale(m, ws_connected_at)
    /\ m.type = "game_end"
    /\ m.reason = "plugin_unload"
    /\ game_session_data' = DictPop(game_session_data, RomName(m))
    /\ ev' = Event("msg", m, "unload", 0)
    /\ UNCHANGED <<last_game_end, last_score, tasks, hist>>

\* mutant of GameEndDuplicate: the accepted game_end of any rom counts
GameEndDuplicateAnyRom(m) ==
    /\ ~IsStale(m, ws_connected_at)
    /\ m.type = "game_end"
    /\ m.reason # "plugin_unload"
    /\ \E r \in DOMAIN last_game_end : IsDuplicate(now, last_game_end[r])
    /\ ev' = Event("msg", m, "duplicate", 0)
    /\ UNCHANGED <<game_session_data, last_game_end, last_score, tasks, hist>>

\* mutant of GameEndDuplicate: the rejected game_end renews the debounce record
GameEndDuplicateRefreshes(m) ==
    /\ ~IsStale(m, ws_connected_at)
    /\ m.type = "game_end"
    /\ m.reason # "plugin_unload"
    /\ IsDuplicate(now, DictGet(last_game_end, RomName(m), 0))
    /\ last_game_end' = DictPut(last_game_end, RomName(m), now)
    /\ ev' = Event("msg", m, "duplicate", 0)
    /\ UNCHANGED <<game_session_data, last_score, tasks, hist>>

\* lines 218-223
GameEndDuplicate(m) ==
    /\ ~IsStale(m, ws_connected_at)
    /\ m.type = "game_end"
    /\ m.reason # "plugin_unload"
    /\ IsDuplicate(now, DictGet(last_game_end, RomName(m), 0))
    /\ ev' = Event("msg", m, "duplicate", 0)
    /\ UNCHANGED <<game_session_data, last_game_end, last_score, tasks, hist>>

\* mutant of AutoSubmit: started whatever the send mode
AutoSubmitAnyMode(best_score, mode) == best_score > 0

\* mutant of AutoSubmit: started whatever the best score
AutoSubmitAnyScore(best_score, mode) == mode = "automatic"

\* lines 257 and 267-268: the automatic submission is started
AutoSubmit(best_score, mode) == best_score > 0 /\ mode = "automatic"

\* mutant of GameEndAccepted: the session outlives the game_end
GameEndAcceptedKeepsSession(m) ==
    LET rom == RomName(m)
        best_score == BestScore(m, game_session_data)
        auto == AutoSubmit(best_score, send_mode)
    IN  /\ ~IsStale(m, ws_connected_at)
        /\ m.type = "game_end"
        /\ m.reason # "plugin_unload"
        /\ ~IsDuplicate(now, DictGet(last_game_end, rom, 0))
        /\ auto => FreeTasks # {}
        /\ last_game_end' = DictPut(last_game_end, rom, now)
        /\ last_score' = IF best_score > 0
                         THEN [rom_name |-> rom, score |-> best_score, timestamp |-> now]
                         ELSE last_score
        /\ tasks' = IF auto THEN StartAuto(tasks, rom, best_score, now)
                    ELSE tasks
        /\ game_session_data' = game_session_data
        /\ hist' = IF auto THEN HistAuto(HistAccept(hist, rom, now), rom, now)
                   ELSE HistAccept(hist, rom, now)
        /\ ev' = Event("msg", m, IF best_score > 0 THEN "final" ELSE "nofinal", 0)

\* mutant of GameEndAccepted: a game_end that finalizes nothing leaves no debounce
\* record
GameEndAcceptedNoRecord(m) ==
    LET rom == RomName(m)
        best_score == BestScore(m, game_session_data)
        auto == AutoSubmit(best_score, send_mode)
    IN  /\ ~IsStale(m, ws_connected_at)
        /\ m.type = "game_end"
        /\ m.reason # "plugin_unload"
        /\ ~IsDuplicate(now, DictGet(last_game_end, rom, 0))
        /\ auto => FreeTasks # {}
        /\ last_game_end' = IF best_score > 0 THEN DictPut(last_game_end, rom, now)
                            ELSE last_game_end
        /\ last_score' = IF best_score > 0
                         THEN [rom_name |-> rom, score |-> best_score, timestamp |-> now]
                         ELSE last_score
        /\ tasks' = IF auto THEN StartAuto(tasks, rom, best_score, now)
                    ELSE tasks
        /\ game_session_data' = DictPop(game_session_data, rom)
        /\ hist' = IF auto THEN HistAuto(HistAccept(hist, rom, now), rom, now)
                   ELSE HistAccept(hist, rom, now)
        /\ ev' = Event("msg", m, IF best_score > 0 THEN "final" ELSE "nofinal", 0)

\* lines 224-280
GameEndAccepted(m) ==
    LET rom == RomName(m)
        best_score == BestScore(m, game_session_data)
        auto == AutoSubmit(best_score, send_mode)
    IN  /\ ~IsStale(m, ws_connected_at)
        /\ m.type = "game_end"
        /\ m.reason # "plugin_unload"
        /\ m.scores # NotIterable
        /\ ~IsDuplicate(now, DictGet(last_game_end, rom, 0))
        /\ auto => FreeTasks # {}
        /\ last_game_end' = DictPut(last_game_end, rom, now)
        /\ last_score' = IF best_score > 0
                         THEN [rom_name |-> rom, score |-> best_score, timestamp |-> now]
                         ELSE last_score
        /\ tasks' = IF auto THEN StartAuto(tasks, rom, best_score, now)
                    ELSE tasks
        /\ game_session_data' = DictPop(game_session_data, rom)
        /\ hist' = IF auto THEN HistAuto(HistAccept(hist, rom, now), rom, now)
                   ELSE HistAccept(hist, rom, now)
        /\ ev' = Event("msg", m, IF best_score > 0 THEN "final" ELSE "nofinal", 0)

\* mutant of CurrentScores: the session is begun anew
CurrentScoresReplaces(m) ==
    LET rom == RomName(m)
        players == EmptyDict
    IN  /\ ~IsStale(m, ws_connected_at)
        /\ m.type = "current_scores"
        /\ game_session_data' =
              DictPut(game_session_data, rom, UpdatePlayers(players, m.scores, m.current_ball))
        /\ ev' = Event("msg", m, "scores", 0)
        /\ UNCHANGED <<last_game_end, last_score, tasks, hist>>

\* lines 282-297
CurrentScores(m) ==
    LET rom == RomName(m)
        players == DictGet(game_session_data, rom, EmptyDict)
    IN  /\ ~IsStale(m, ws_connected_at)
        /\ m.type = "current_scores"
        /\ m.scores # NotIterable
        /\ game_session_data' =
              DictPut(game_session_data, rom, UpdatePlayers(players, m.scores, m.current_ball))
        /\ ev' = Event("msg", m, "scores", 0)
        /\ UNCHANGED <<last_game_end, last_score, tasks, hist>>

\* no branch of the handler matches the type
OtherMessage(m) ==
    /\ ~IsStale(m, ws_connected_at)
    /\ m.type \notin {"table_loaded", "game_start", "game_end", "current_scores",
                      "<not json>", "<not an object>"}
    /\ ev' = Event("msg", m, "ignored", 0)
    /\ UNCHANGED <<game_session_data, last_game_end, last_score, tasks, hist>>

\* lines 181-184: json.loads() raises and the handler returns
DropUndecodable(m) ==
    /\ m.type = "<not json>"
    /\ ev' = Event("msg", m, "undecodable", 0)
    /\ UNCHANGED <<game_session_data, last_game_end, last_score, tasks, hist>>

\* line 187: data.get raises AttributeError, which leaves the handler; the
\* WebSocketApp that called it logs the exception and goes on dispatching
RaisesNotAnObject(m) ==
    /\ m.type = "<not an object>"
    /\ ev' = Event("msg", m, "raised", 0)
    /\ UNCHANGED <<game_session_data, last_game_end, last_score, tasks, hist>>

\* lines 218-235: the debounce record is written, then "for p_data in end_scores"
\* raises TypeError, which leaves the handler before line 279
GameEndRaises(m) ==
    /\ ~IsStale(m, ws_connected_at)
    /\ m.type = "game_end"
    /\ m.reason # "plugin_unload"
    /\ ~IsDuplicate(now, DictGet(last_game_end, RomName(m), 0))
    /\ m.scores = NotIterable
    /\ last_game_end' = DictPut(last_game_end, RomName(m), now)
    /\ hist' = HistAccept(hist, RomName(m), now)
    /\ ev' = Event("msg", m, "raised", 0)
    /\ UNCHANGED <<game_session_data, last_score, tasks>>

\* lines 282-286: the session is created if absent, then the for statement raises
\* TypeError, which leaves the handler
CurrentScoresRaises(m) ==
    /\ ~IsStale(m, ws_connected_at)
    /\ m.type = "current_scores"
    /\ m.scores = NotIterable
    /\ game_session_data' =
          IF RomName(m) \in DOMAIN game_session_data THEN game_session_data
          ELSE DictPut(game_session_data, RomName(m), EmptyDict)
    /\ ev' = Event("msg", m, "raised", 0)
    /\ UNCHANGED <<last_game_end, last_score, tasks, hist>>

OnWsMessage(m) ==
    /\ ws_open
    /\ handled < MaxMsgs
    /\ handled' = handled + 1
    /\ \/ DropUndecodable(m)
       \/ RaisesNotAnObject(m)
       \/ DropStale(m)
       \/ GameStart(m)
       \/ GameEndUnload(m)
       \/ GameEndDuplicate(m)
       \/ GameEndAccepted(m)
       \/ GameEndRaises(m)
       \/ CurrentScores(m)
       \/ CurrentScoresRaises(m)
       \/ OtherMessage(m)
    /\ UNCHANGED <<ws_connected_at, ws_open, now, send_mode, api_configured, lifecycle, scan>>

-----------------------------------------------------------------------------
(* The loop over a score list, run by itself on every short list of score texts *)

T_1234500 == <<"1", ",", "2", "3", "4", ",", "5", "0", "0">>

\* the characters of the score texts: digits, the two separators the parser
\* removes, and a letter
ScoreChars == {"0", "4", ",", ".", "a"}

RECURSIVE TextsOfLen(_)
TextsOfLen(n) ==
    IF n = 0 THEN {<<>>} ELSE {<<c>> \o t : c \in ScoreChars, t \in TextsOfLen(n - 1)}

ScoreTexts == UNION {TextsOfLen(n) : n \in 0..MaxLen} \cup {T_1234500, T_000450}

\* the 'scores' lists: one entry per player
ScoreLists ==
    UNION {{[i \in 1..n |-> [player |-> PyStr(i), score |-> f[i]]] : f \in [1..n -> ScoreTexts]} :
              n \in 1..MaxEntries}

\* no list is being scanned
NoScan == [entries |-> <<>>, best |-> 0, seen |-> <<>>]

\* one turn of "for p_data in end_scores:" (lines 235-242): the entry is parsed and
\* raises best_score if it is higher; an entry that does not parse is passed over
ScanEntry ==
    /\ scan.entries # <<>>
    /\ LET p == ParseScore(Head(scan.entries).score)
       IN  scan' = [entries |-> Tail(scan.entries),
                    best |-> IF p.ok /\ p.val > scan.best THEN p.val ELSE scan.best,
                    seen |-> Append(scan.seen, Head(scan.entries))]
    /\ ev' = Event("scan", NoMsg, "", 0)
    /\ UNCHANGED <<game_session_data, last_game_end, last_score, ws_connected_at, ws_open, now,
                   send_mode, api_configured, tasks, handled, hist, lifecycle>>

-----------------------------------------------------------------------------
(* submit_score_with_screenshot, one thread per call *)

T_None == <<"N", "o", "n", "e">>

\* str(self.last_score['score'])
ScoreField(score) == IF score = NoneInt THEN T_None ELSE PyStr(score)

\* mutant of NoScoreAvailable: only the empty string counts
NoScoreAvailableEmptyOnly(ls) == ls.rom_name = ""

\* "not self.last_score['rom_name']": None and '' are both false
NoScoreAvailable(ls) == ls.rom_name = None \/ ls.rom_name = ""

\* has_pending_score (lines 463-465)
HasPendingScore(ls) == ls.rom_name # None

\* what the POST can come to: a network error or timeout, a non-2xx status, or a
\* 2xx status with a JSON object {success?, tableName?}
Replies ==
    {[status |-> "neterr", success |-> "absent", tableName |-> Missing],
     [status |-> "non2xx", success |-> "absent", tableName |-> Missing],
     [status |-> "2xx", success |-> "absent", tableName |-> Missing],
     [status |-> "2xx", success |-> "false", tableName |-> Missing],
     [status |-> "2xx", success |-> "true", tableName |-> Missing],
     [status |-> "2xx", success |-> "true", tableName |-> "Medieval Madness"]}

\* mutant of NotifyAndEnd: the thread ends without calling the callback
EndWithoutNotify(task, title, text) ==
    [task EXCEPT !.pc = "done",
                 !.note = [title |-> title, text |-> text, table |-> "", score |-> <<>>]]

\* self.on_notification(title, text), then the thread ends
NotifyAndEnd(task, title, text) ==
    [task EXCEPT !.pc = "done", !.notes = @ + 1,
                 !.note = [title |-> title, text |-> text, table |-> "", score |-> <<>>]]

\* the end of time.sleep(2) in auto_submit (lines 271-274)
SubmitWake(i) ==
    /\ tasks[i].pc = "sleep"
    /\ now >= tasks[i].wake
    /\ tasks' = [tasks EXCEPT ![i].pc = "check"]
    /\ ev' = Event("submit", NoMsg, "wake", i)
    /\ UNCHANGED last_score

\* lines 343-353
SubmitCheck(i) ==
    /\ tasks[i].pc = "check"
    /\ IF NoScoreAvailable(last_score)
       THEN /\ tasks' = [tasks EXCEPT ![i] = NotifyAndEnd(@, "Error", "No score available!")]
            /\ ev' = Event("submit", NoMsg, "no_score", i)
       ELSE IF ~api_configured
       THEN /\ tasks' = [tasks EXCEPT ![i] =
                            NotifyAndEnd(@, "Error", "Leaderboard not configured!")]
            /\ ev' = Event("submit", NoMsg, "not_configured", i)
       ELSE /\ tasks' = [tasks EXCEPT ![i].pc = "capture"]
            /\ ev' = Event("submit", NoMsg, "checked", i)
    /\ UNCHANGED last_score

\* lines 355-369: _capture_screenshot() returns an image or None
SubmitCapture(i) ==
    /\ tasks[i].pc = "capture"
    /\ \E shot \in {"image", "none"} :
        IF shot = "none"
        THEN /\ tasks' = [tasks EXCEPT ![i] =
                    NotifyAndEnd([@ EXCEPT !.shots = @ + 1], "Error",
                                 "Failed to capture screenshot")]
             /\ ev' = Event("submit", NoMsg, "capture_failed", i)
        ELSE /\ tasks' = [tasks EXCEPT ![i].pc = "read_rom", ![i].shots = @ + 1]
             /\ ev' = Event("submit", NoMsg, "captured", i)
    /\ UNCHANGED last_score

\* line 378
SubmitReadRom(i) ==
    /\ tasks[i].pc = "read_rom"
    /\ tasks' = [tasks EXCEPT ![i].pc = "read_score", ![i].rom = last_score.rom_name]
    /\ ev' = Event("submit", NoMsg, "read_rom", i)
    /\ UNCHANGED last_score

\* line 379
SubmitReadScore(i) ==
    /\ tasks[i].pc = "read_score"
    /\ tasks' = [tasks EXCEPT ![i].pc = "post", ![i].score = ScoreField(last_score.score)]
    /\ ev' = Event("submit", NoMsg, "read_score", i)
    /\ UNCHANGED last_score

\* mutant of SubmitPost: a refused submission clears the pending score
SubmitPostClearsRefused(i) ==
    /\ tasks[i].pc = "post"
    /\ \E reply \in Replies :
        IF reply.status # "2xx"
        THEN /\ tasks' = [tasks EXCEPT ![i] =
                    NotifyAndEnd([@ EXCEPT !.posts = @ + 1], "Error", "Failed to submit")]
             /\ ev' = Event("submit", NoMsg, reply.status, i)
             /\ UNCHANGED last_score
        ELSE IF reply.success # "true"
        THEN /\ tasks' = [tasks EXCEPT ![i] =
                    NotifyAndEnd([@ EXCEPT !.posts = @ + 1], "Error", "Submission failed")]
             /\ ev' = Event("submit", NoMsg, "refused", i)
             /\ last_score' = EmptyScore
        ELSE /\ tasks' = [tasks EXCEPT ![i].pc = "format", ![i].posts = @ + 1,
                                       ![i].success = TRUE, ![i].table = reply.tableName]
             /\ ev' = Event("submit", NoMsg, "posted", i)
             /\ UNCHANGED last_score

\* lines 388-394 and 404-414: the POST and what its reply leads to
SubmitPost(i) ==
    /\ tasks[i].pc = "post"
    /\ \E reply \in Replies :
        IF reply.status # "2xx"
        THEN /\ tasks' = [tasks EXCEPT ![i] =
                    NotifyAndEnd([@ EXCEPT !.posts = @ + 1], "Error", "Failed to submit")]
             /\ ev' = Event("submit", NoMsg, reply.status, i)
        ELSE IF reply.success # "true"
        THEN /\ tasks' = [tasks EXCEPT ![i] =
                    NotifyAndEnd([@ EXCEPT !.posts = @ + 1], "Error", "Submission failed")]
             /\ ev' = Event("submit", NoMsg, "refused", i)
        ELSE /\ tasks' = [tasks EXCEPT ![i].pc = "format", ![i].posts = @ + 1,
                                       ![i].success = TRUE, ![i].table = reply.tableName]
             /\ ev' = Event("submit", NoMsg, "posted", i)
    /\ UNCHANGED last_score

\* line 395: f"{self.last_score['score']:,}" raises TypeError on None
SubmitFormat(i) ==
    /\ tasks[i].pc = "format"
    /\ IF last_score.score = NoneInt
       THEN /\ tasks' = [tasks EXCEPT ![i] = NotifyAndEnd(@, "Error", "Submission failed")]
            /\ ev' = Event("submit", NoMsg, "format_failed", i)
       ELSE /\ tasks' = [tasks EXCEPT ![i].pc = "notify",
                                      ![i].fmt = FormatThousands(last_score.score)]
            /\ ev' = Event("submit", NoMsg, "formatted", i)
    /\ UNCHANGED last_score

\* lines 396-401
SubmitNotify(i) ==
    /\ tasks[i].pc = "notify"
    /\ tasks' = [tasks EXCEPT
                    ![i].pc = "clear", ![i].notes = @ + 1,
                    ![i].note = [title |-> "Score Submitted!", text |-> "",
                                 table |-> IF tasks[i].table = Missing
                                           THEN last_score.rom_name ELSE tasks[i].table,
                                 score |-> tasks[i].fmt]]
    /\ ev' = Event("submit", NoMsg, "notified", i)
    /\ UNCHANGED last_score

\* line 403
SubmitClear(i) ==
    /\ tasks[i].pc = "clear"
    /\ last_score' = EmptyScore
    /\ tasks' = [tasks EXCEPT ![i].pc = "done"]
    /\ ev' = Event("submit", NoMsg, "cleared", i)

SubmitStep(i) ==
    /\ \/ SubmitWake(i)
       \/ SubmitCheck(i)
       \/ SubmitCapture(i)
       \/ SubmitReadRom(i)
       \/ SubmitReadScore(i)
       \/ SubmitPost(i)
       \/ SubmitFormat(i)
       \/ SubmitNotify(i)
       \/ SubmitClear(i)
    /\ UNCHANGED <<game_session_data, last_game_end, ws_connected_at, ws_open, now,
                   send_mode, api_configured, handled, hist, lifecycle, scan>>

\* _on_screenshot_hotkey (lines 333-337); the listener runs in manual mode only
\* (lines 118-125)
OnScreenshotHotkey ==
    /\ send_mode = "manual"
    /\ FreeTasks # {}
    /\ tasks' = StartThread(tasks, "manual", "check", 0)
    /\ ev' = Event("hotkey", NoMsg, "", 0)
    /\ UNCHANGED <<game_session_data, last_game_end, last_score, ws_connected_at, ws_open,
                   now, send_mode, api_configured, handled, hist, lifecycle, scan>>

-----------------------------------------------------------------------------
(* The connection and the clock *)

\* _on_ws_open (lines 174-177)
OnWsOpen ==
    /\ ~ws_open
    /\ ws_open' = TRUE
    /\ ws_connected_at' = now
    /\ ev' = Event("open", NoMsg, "", 0)
    /\ UNCHANGED <<game_session_data, last_game_end, last_score, now, send_mode,
                   api_configured, tasks, handled, hist, lifecycle, scan>>

\* the connection is lost: run_forever() returns (line 164)
OnWsClose ==
    /\ ws_open
    /\ ws_open' = FALSE
    /\ ev' = Event("close", NoMsg, "", 0)
    /\ UNCHANGED <<game_session_data, last_game_end, last_score, ws_connected_at, now,
                   send_mode, api_configured, tasks, handled, hist, lifecycle, scan>>

Tick ==
    /\ now < StartTime + MaxTicks * TickLen
    /\ now' = now + TickLen
    /\ ev' = Event("tick", NoMsg, "", 0)
    /\ UNCHANGED <<game_session_data, last_game_end, last_score, ws_connected_at, ws_open,
                   send_mode, api_configured, tasks, handled, hist, lifecycle, scan>>

-----------------------------------------------------------------------------
(* start, stop and _run_websocket *)

\* what the connection thread and the hotkey never touch in start(), stop() and the
\* connection loop
tracker == <<game_session_data, last_game_end, last_score, now, send_mode, api_configured,
             tasks, handled, hist, scan>>

\* a thread of _run_websocket that was never started.  conn is the WebSocketApp the
\* thread created last: "none", "new" (created, not connected), "open", "closed";
\* slept counts the seconds of the current time.sleep(10)
IdleLoop == [pc |-> "unstarted", conn |-> "none", slept |-> 0]

FreeLoops == {t \in 1..MaxStarts : loops[t].pc = "unstarted"}

\* some WebSocketApp is connected
AnyOpen(ls) == \E t \in 1..MaxStarts : ls[t].conn = "open"

\* start (lines 102-127)
Start ==
    /\ stop_pc # "close"
    /\ IF ~enabled
       THEN /\ ev' = Event("start", NoMsg, "disabled", 0)
            /\ UNCHANGED <<running, loops, hotkeys, stop_pc>>
       ELSE /\ FreeLoops # {}
            /\ LET t == CHOOSE t \in FreeLoops : \A u \in FreeLoops : t <= u
               IN  /\ running' = TRUE
                   /\ loops' = [loops EXCEPT ![t].pc = "test"]
                   /\ hotkeys' = IF send_mode = "manual"
                                 THEN [hotkeys EXCEPT ![t] = "starting"] ELSE hotkeys
            /\ stop_pc' = "idle"
            /\ ev' = Event("start", NoMsg, "enabled", 0)
    /\ UNCHANGED <<enabled, ws, hotkey_listener, ws_connected_at, ws_open, tracker>>

\* _run_hotkey_listener (lines 329-330): the listener is created and started
HotkeyListen(t) ==
    /\ hotkeys[t] = "starting"
    /\ hotkeys' = [hotkeys EXCEPT ![t] = "listening"]
    /\ hotkey_listener' = t
    /\ ev' = Event("listen", NoMsg, "", t)
    /\ UNCHANGED <<enabled, running, ws, loops, stop_pc, ws_connected_at, ws_open, tracker>>

\* stop, line 131
StopClearFlag ==
    /\ stop_pc # "close"
    /\ running' = FALSE
    /\ stop_pc' = "close"
    /\ ev' = Event("stop", NoMsg, "flag", 0)
    /\ UNCHANGED <<enabled, ws, loops, hotkeys, hotkey_listener, ws_connected_at, ws_open,
                   tracker>>

\* stop, lines 133-145: self.ws.close() ends a connected WebSocketApp; on one that
\* is not connected yet it may or may not keep run_forever() from connecting
StopClose ==
    /\ stop_pc = "close"
    /\ \E c \in {"new", "closed"} :
          loops' = IF ws = 0 THEN loops
                   ELSE [loops EXCEPT ![ws].conn = IF @ = "open" THEN "closed"
                                                   ELSE IF @ = "new" THEN c ELSE @]
    /\ ws_open' = AnyOpen(loops')
    /\ hotkeys' = IF hotkey_listener = 0 THEN hotkeys
                  ELSE [hotkeys EXCEPT ![hotkey_listener] = "stopped"]
    /\ stop_pc' = "returned"
    /\ ev' = Event("stop", NoMsg, "returned", 0)
    /\ UNCHANGED <<enabled, running, ws, hotkey_listener, ws_connected_at, tracker>>


\* "while self.running:" (line 154)
LoopTest(t) ==
    /\ loops[t].pc = "test"
    /\ loops' = [loops EXCEPT ![t].pc = IF running THEN "create" ELSE "exit"]
    /\ ev' = Event("loop", NoMsg, IF running THEN "enter" ELSE "exit", t)
    /\ UNCHANGED <<ws, ws_open, ws_connected_at>>

\* lines 156-163: self.ws = websocket.WebSocketApp(...)
LoopCreate(t) ==
    /\ loops[t].pc = "create"
    /\ loops' = [loops EXCEPT ![t].pc = "run", ![t].conn = "new"]
    /\ ws' = t
    /\ ev' = Event("loop", NoMsg, "create", t)
    /\ UNCHANGED <<ws_open, ws_connected_at>>

\* run_forever() (line 164) connects and calls _on_ws_open (lines 174-177)
LoopOpen(t) ==
    /\ loops[t].pc = "run"
    /\ loops[t].conn = "new"
    /\ loops' = [loops EXCEPT ![t].conn = "open"]
    /\ ws_open' = TRUE
    /\ ws_connected_at' = now
    /\ ev' = Event("loop", NoMsg, "open", t)
    /\ UNCHANGED ws

\* run_forever(): the connection cannot be opened, or the open connection is lost
LoopLost(t) ==
    /\ loops[t].pc = "run"
    /\ loops[t].conn \in {"new", "open"}
    /\ loops' = [loops EXCEPT ![t].conn = "closed"]
    /\ ws_open' = AnyOpen(loops')
    /\ ev' = Event("loop", NoMsg, IF loops[t].conn = "new" THEN "refused" ELSE "lost", t)
    /\ UNCHANGED <<ws, ws_connected_at>>

\* run_forever() returns (to line 166) or raises (to line 169)
LoopReturn(t) ==
    /\ loops[t].pc = "run"
    /\ loops[t].conn = "closed"
    /\ \E to \in {"after", "caught"} :
          /\ loops' = [loops EXCEPT ![t].pc = to]
          /\ ev' = Event("loop", NoMsg, to, t)
    /\ UNCHANGED <<ws, ws_open, ws_connected_at>>

\* mutant of LoopAfter: the next attempt is made without the wait
LoopAfterNoWait(t) ==
    /\ loops[t].pc \in {"after", "caught"}
    /\ loops' = [loops EXCEPT ![t].pc = "test"]
    /\ ev' = Event("loop", NoMsg, IF running THEN "sleep" ELSE "nosleep", t)
    /\ UNCHANGED <<ws, ws_open, ws_connected_at>>

\* lines 166-168 and 170-172: "if self.running:" and the start of time.sleep(10)
LoopAfter(t) ==
    /\ loops[t].pc \in {"after", "caught"}
    /\ loops' = [loops EXCEPT ![t].pc = IF running THEN "sleep" ELSE "test", ![t].slept = 0]
    /\ ev' = Event("loop", NoMsg, IF running THEN "sleep" ELSE "nosleep", t)
    /\ UNCHANGED <<ws, ws_open, ws_connected_at>>

\* time.sleep(10): TickLen seconds of it pass, and when all have passed it returns
\* to line 154
LoopSleep(t) ==
    /\ loops[t].pc = "sleep"
    /\ IF loops[t].slept < ReconnectDelay
       THEN /\ loops' = [loops EXCEPT ![t].slept = IF @ + TickLen < ReconnectDelay
                                                    THEN @ + TickLen ELSE ReconnectDelay]
            /\ ev' = Event("loop", NoMsg, "sleeping", t)
       ELSE /\ loops' = [loops EXCEPT ![t].pc = "test"]
            /\ ev' = Event("loop", NoMsg, "woke", t)
    /\ UNCHANGED <<ws, ws_open, ws_connected_at>>

\* what a step of a thread of _run_websocket leaves alone
LoopFrame == UNCHANGED <<enabled, running, hotkeys, hotkey_listener, stop_pc, tracker>>

\* the steps of thread t of _run_websocket (lines 147-172)
LoopStep(t) ==
    /\ \/ LoopTest(t)
       \/ LoopCreate(t)
       \/ LoopOpen(t)
       \/ LoopLost(t)
       \/ LoopReturn(t)
       \/ LoopAfter(t)
       \/ LoopSleep(t)
    /\ LoopFrame

-----------------------------------------------------------------------------
(* The specification *)

\* __init__ (lines 40-72), with the configuration the tracker was given
Init ==
    /\ game_session_data = EmptyDict
    /\ last_game_end = EmptyDict
    /\ last_score = EmptyScore
    /\ ws_connected_at = NoneInt
    /\ ws_open = FALSE
    /\ now = StartTime
    /\ send_mode \in {"manual", "automatic"}
    /\ api_configured \in BOOLEAN
    /\ tasks = [i \in 1..MaxTasks |-> IdleTask]
    /\ handled = 0
    /\ hist = [r \in RomIds |-> NoHist]
    /\ ev = Event("init", NoMsg, "", 0)
    /\ enabled = TRUE
    /\ running = FALSE
    /\ ws = 0
    /\ loops = [t \in 1..MaxStarts |-> IdleLoop]
    /\ hotkeys = [t \in 1..MaxStarts |-> "unstarted"]
    /\ hotkey_listener = 0
    /\ stop_pc = "idle"
    /\ scan = NoScan

\* the whole program while the connection stays up: the connection thread, the
\* hotkey and the submission threads
Next ==
    \/ OnWsOpen
    \/ Tick
    \/ \E m \in SubmitMessages : OnWsMessage(m)
    \/ OnScreenshotHotkey
    \/ \E i \in 1..MaxTasks : SubmitStep(i)

Spec == Init /\ [][Next]_vars

\* the connection thread alone, with every kind of message; it never reads what the
\* submission threads write, and the threads it starts are left where they start
NextTracker ==
    \/ OnWsOpen
    \/ OnWsClose
    \/ Tick
    \/ \E m \in TrackerMessages(now) : OnWsMessage(m)

SpecTracker == Init /\ [][NextTracker]_vars

\* __init__ with a configuration that enables tracking or does not; the API is
\* configured (start, stop and the connection loop never read it)
InitLifecycle ==
    /\ game_session_data = EmptyDict
    /\ last_game_end = EmptyDict
    /\ last_score = EmptyScore
    /\ ws_connected_at = NoneInt
    /\ ws_open = FALSE
    /\ now = StartTime
    /\ send_mode \in {"manual", "automatic"}
    /\ api_configured = TRUE
    /\ tasks = [i \in 1..MaxTasks |-> IdleTask]
    /\ handled = 0
    /\ hist = [r \in RomIds |-> NoHist]
    /\ ev = Event("init", NoMsg, "", 0)
    /\ enabled \in BOOLEAN
    /\ running = FALSE
    /\ ws = 0
    /\ loops = [t \in 1..MaxStarts |-> IdleLoop]
    /\ hotkeys = [t \in 1..MaxStarts |-> "unstarted"]
    /\ hotkey_listener = 0
    /\ stop_pc = "idle"
    /\ scan = NoScan

\* the caller of start() and stop(), the connection threads and the hotkey threads
NextLifecycle ==
    \/ Start
    \/ StopClearFlag
    \/ StopClose
    \/ \E t \in 1..MaxStarts : LoopStep(t)
    \/ \E t \in 1..MaxStarts : HotkeyListen(t)

SpecLifecycle == InitLifecycle /\ [][NextLifecycle]_vars

\* the connection thread with malformed messages among well-formed ones
NextMalformed ==
    \/ OnWsOpen
    \/ Tick
    \/ \E m \in MalformedMessages : OnWsMessage(m)

SpecMalformed == Init /\ [][NextMalformed]_vars

\* the score loop on every list of ScoreLists
InitScan ==
    /\ game_session_data = EmptyDict
    /\ last_game_end = EmptyDict
    /\ last_score = EmptyScore
    /\ ws_connected_at = NoneInt
    /\ ws_open = FALSE
    /\ now = StartTime
    /\ send_mode = "manual"
    /\ api_configured = TRUE
    /\ tasks = [i \in 1..MaxTasks |-> IdleTask]
    /\ handled = 0
    /\ hist = [r \in RomIds |-> NoHist]
    /\ ev = Event("init", NoMsg, "", 0)
    /\ enabled = TRUE
    /\ running = FALSE
    /\ ws = 0
    /\ loops = [t \in 1..MaxStarts |-> IdleLoop]
    /\ hotkeys = [t \in 1..MaxStarts |-> "unstarted"]
    /\ hotkey_listener = 0
    /\ stop_pc = "idle"
    /\ scan \in {[entries |-> es, best |-> 0, seen |-> <<>>] : es \in ScoreLists}

NextScan == ScanEntry

SpecScan == InitScan /\ [][NextScan]_vars

\* the same while stop() is never called; a thread of _run_websocket that can take
\* a step of its own eventually takes it (how long a connection lasts is not its
\* to decide)
NextReconnect ==
    \/ Start
    \/ \E t \in 1..MaxStarts : LoopStep(t)
    \/ \E t \in 1..MaxStarts : HotkeyListen(t)

SpecReconnect ==
    /\ InitLifecycle
    /\ [][NextReconnect]_vars
    /\ \A t \in 1..MaxStarts :
          /\ WF_vars(LoopTest(t) /\ LoopFrame)
          /\ WF_vars(LoopCreate(t) /\ LoopFrame)
          /\ WF_vars(LoopReturn(t) /\ LoopFrame)
          /\ WF_vars(LoopAfter(t) /\ LoopFrame)
          /\ WF_vars(LoopSleep(t) /\ LoopFrame)

\* start() and stop() with threads that take the steps they can take: stop(), once
\* called, goes on to line 133, and a connection attempt ends, either connected or
\* refused; how long an open connection lasts is the server's to decide
ConnectAttempt(t) == (LoopOpen(t) \/ (LoopLost(t) /\ loops[t].conn = "new")) /\ LoopFrame

SpecStop ==
    /\ InitLifecycle
    /\ [][NextLifecycle]_vars
    /\ WF_vars(StopClose)
    /\ \A t \in 1..MaxStarts :
          /\ WF_vars(LoopTest(t) /\ LoopFrame)
          /\ WF_vars(LoopCreate(t) /\ LoopFrame)
          /\ WF_vars(ConnectAttempt(t))
          /\ WF_vars(LoopReturn(t) /\ LoopFrame)
          /\ WF_vars(LoopAfter(t) /\ LoopFrame)
          /\ WF_vars(LoopSleep(t) /\ LoopFrame)

-----------------------------------------------------------------------------
(* What the claims speak of *)

\* the parsed scores of a list of entries and of a session, those that parse
ParsedOfList(entries) ==
    {ParseScore(entries[i].score).val :
        i \in {j \in 1..Len(entries) : ParseScore(entries[j].score).ok}}

ParsedOfDict(d) ==
    {ParseScore(d[k].score).val : k \in {j \in DOMAIN d : ParseScore(d[j].score).ok}}

\* the parsed scores of the source a game_end selects: its own list if non-empty,
\* otherwise the session accumulated for its rom
SelectedScores(m, sessions) ==
    IF m.scores # <<>> THEN ParsedOfList(m.scores)
    ELSE IF RomName(m) \in DOMAIN sessions THEN ParsedOfDict(sessions[RomName(m)])
    ELSE {}

MaxOf(S) == CHOOSE x \in S : \A y \in S : y <= x

\* the selected source holds a score above zero
HasPositive(m, sessions) == \E x \in SelectedScores(m, sessions) : x > 0

\* the step handles a game_end whose reason is not plugin_unload
EndStep == ev'.op = "msg" /\ ev'.m.type = "game_end" /\ ev'.m.reason # "plugin_unload"

\* the step handles a game_end that passes the staleness, plugin_unload and debounce
\* checks
AcceptedStep == ev'.op = "msg" /\ ev'.res \in {"final", "nofinal"}

\* the step handles a message of a start type that is not dropped as stale
StartStep ==
    /\ ev'.op = "msg"
    /\ ev'.m.type \in {"table_loaded", "game_start"}
    /\ ~IsStale(ev'.m, ws_connected_at)

\* the submission threads the step starts
Started == {i \in 1..MaxTasks : tasks[i].pc = "idle" /\ tasks'[i].pc # "idle"}

-----------------------------------------------------------------------------
(* C1 *)

\* C1 as stated: a game_end (reason other than plugin_unload) handled less than 10
\* seconds after the last accepted game_end of the same rom, with no game_start for
\* that rom in between, leaves last_score as it was.
C1_AsStated ==
    [][LET h == hist[RomName(ev'.m)]
       IN  (/\ EndStep
            /\ h.endAt # NoneInt
            /\ now - h.endAt < 10
            /\ "game_start" \notin h.endStarts)
           => last_score' = last_score]_vars

\* C1 amended: a game_end (reason other than plugin_unload) handled less than 10
\* seconds after the last accepted game_end of the same rom, with neither a
\* game_start nor a table_loaded for that rom in between, leaves last_score
\* (rom_name, score, timestamp) as it was, whatever scores it carries.
C1_Debounce ==
    [][LET h == hist[RomName(ev'.m)]
       IN  (/\ EndStep
            /\ h.endAt # NoneInt
            /\ now - h.endAt < 10
            /\ h.endStarts = {})
           => last_score' = last_score]_vars

\* a repeated game_end that carries a score other than the pending one was handled
\* within the window and the pending score is still the earlier one
C1_Witness ==
    LET h == hist[RomName(ev.m)]
    IN  /\ ev.op = "msg" /\ ev.m.type = "game_end" /\ ev.m.reason = ""
        /\ ~IsStale(ev.m, ws_connected_at)
        /\ h.endAt # NoneInt /\ h.endAt < now /\ now - h.endAt < 10 /\ h.endStarts = {}
        /\ HasPositive(ev.m, game_session_data)
        /\ last_score.rom_name = RomName(ev.m)
        /\ last_score.timestamp = h.endAt
        /\ last_score.score \notin SelectedScores(ev.m, game_session_data)

-----------------------------------------------------------------------------
(* C2 *)

\* C2 as stated: after an accepted game_end, last_score.score is the maximum parsed
\* score over the entries of the selected source and last_score.rom_name is its rom.
C2_AsStated ==
    [][AcceptedStep =>
          LET S == SelectedScores(ev'.m, game_session_data)
          IN  /\ S # {}
              /\ last_score'.score = MaxOf(S)
              /\ last_score'.rom_name = RomName(ev'.m)]_vars

\* C2 amended: after an accepted game_end, if the maximum parsed score over the
\* entries of the selected source is above zero, last_score is that rom with that
\* maximum (and the time of the game_end); if the source has no entry or no parsed
\* score above zero, last_score is left as it was.
C2_BestScore ==
    [][AcceptedStep =>
          LET S == SelectedScores(ev'.m, game_session_data)
          IN  IF S # {} /\ MaxOf(S) > 0
              THEN last_score' = [rom_name |-> RomName(ev'.m), score |-> MaxOf(S),
                                  timestamp |-> now]
              ELSE last_score' = last_score]_vars

\* game_start X, current_scores X [Player1 '10,000', Player2 '25,500'], game_end X
\* without a list: the pending score is {X, 25500}
C2_Witness ==
    /\ ev.op = "msg" /\ ev.res = "final" /\ ev.m.rom = "X" /\ ev.m.scores = <<>>
    /\ last_score.rom_name = "X"
    /\ last_score.score = 25500

-----------------------------------------------------------------------------
(* C3 *)

\* C3: a game_end whose reason is plugin_unload, once handled (a message dropped as
\* stale is not handled at all), leaves last_score unchanged, starts no submission
\* thread, leaves _last_game_end unchanged, and leaves no session for its rom.
C3_PluginUnload ==
    [][(/\ ev'.op = "msg"
        /\ ev'.m.type = "game_end"
        /\ ev'.m.reason = "plugin_unload"
        /\ ~IsStale(ev'.m, ws_connected_at))
       => /\ last_score' = last_score
          /\ tasks' = tasks
          /\ last_game_end' = last_game_end
          /\ RomName(ev'.m) \notin DOMAIN game_session_data'
          /\ \A r \in DOMAIN game_session_data :
                r # RomName(ev'.m) => r \in DOMAIN game_session_data']_vars

\* a plugin_unload game_end that carries scores was handled in automatic mode while
\* a score of another rom was pending
C3_Witness ==
    /\ ev.op = "msg" /\ ev.m.type = "game_end" /\ ev.m.reason = "plugin_unload"
    /\ ~IsStale(ev.m, ws_connected_at)
    /\ HasPositive(ev.m, game_session_data)
    /\ send_mode = "automatic"
    /\ RomName(ev.m) \notin DOMAIN last_game_end
    /\ last_score # EmptyScore
    /\ last_score.rom_name # RomName(ev.m)

-----------------------------------------------------------------------------
(* C4 *)

\* what a dropped message must leave alone
Untouched ==
    /\ game_session_data' = game_session_data
    /\ last_game_end' = last_game_end
    /\ last_score' = last_score
    /\ tasks' = tasks

\* C4 as stated: every message that carries a timestamp earlier than the connection
\* epoch is dropped: sessions, debounce records, last_score and the submission
\* threads are unchanged, whatever its type.
C4_AsStated ==
    [][(/\ ev'.op = "msg"
        /\ ev'.m.timestamp.fmt # "absent"
        /\ ws_connected_at # NoneInt
        /\ ev'.m.timestamp.t < ws_connected_at)
       => Untouched]_vars

\* C4 amended: every message that carries a timestamp in the server's format
\* (date, time and a fraction of a second) earlier than the connection epoch is
\* dropped: sessions, debounce records, last_score and the submission threads are
\* unchanged, whatever its type; a timestamp the handler cannot parse does not make
\* the message stale.
C4_Stale ==
    [][(/\ ev'.op = "msg"
        /\ ev'.m.timestamp.fmt = "frac"
        /\ ws_connected_at # NoneInt
        /\ ev'.m.timestamp.t < ws_connected_at)
       => Untouched]_vars

\* a game_end that carries a score and a timestamp older than the connection was
\* handled in automatic mode, and nothing is pending or scheduled
C4_Witness ==
    /\ ev.op = "msg" /\ ev.m.type = "game_end" /\ ev.m.reason = ""
    /\ ev.m.timestamp.fmt = "frac"
    /\ ev.m.timestamp.t < ws_connected_at
    /\ HasPositive(ev.m, game_session_data)
    /\ send_mode = "automatic"
    /\ last_score = EmptyScore
    /\ last_game_end = EmptyDict
    /\ \A i \in 1..MaxTasks : tasks[i].pc = "idle"

-----------------------------------------------------------------------------
(* C5 *)

\* C5: a game_start or table_loaded that is handled leaves an empty session for its
\* rom and no debounce record for it; a game_end (reason other than plugin_unload)
\* handled after such a start is accepted however soon it follows the last accepted
\* game_end of that rom; and an accepted game_end without a list of its own that
\* finds the session as the start left it finalizes nothing.
C5_Start ==
    [][LET rom == RomName(ev'.m)
           h == hist[rom]
       IN  /\ StartStep =>
                /\ rom \in DOMAIN game_session_data'
                /\ DOMAIN game_session_data'[rom] = {}
                /\ rom \notin DOMAIN last_game_end'
           /\ (/\ EndStep
               /\ ~IsStale(ev'.m, ws_connected_at)
               /\ h.endAt # NoneInt
               /\ h.endStarts # {})
              => /\ AcceptedStep
                 /\ rom \in DOMAIN last_game_end'
                 /\ last_game_end'[rom] = now
           /\ (/\ AcceptedStep
               /\ ev'.m.scores = <<>>
               /\ rom \in DOMAIN game_session_data => DOMAIN game_session_data[rom] = {})
              => last_score' = last_score]_vars

\* game_end, start, game_end of one rom within 10 seconds: the second game_end was
\* accepted and finalized its score
C5_Witness ==
    LET h == hist[RomName(ev.m)]
    IN  /\ ev.op = "msg" /\ ev.res = "final"
        /\ h.prevEndAt # NoneInt
        /\ now - h.prevEndAt < 10
        /\ h.prevStarts # {}
        /\ last_score.rom_name = RomName(ev.m)
        /\ last_score.timestamp = now

-----------------------------------------------------------------------------
(* C6 *)

\* in automatic mode an accepted game_end whose selected source holds a score above
\* zero starts exactly one thread, which sleeps before it submits; no other message
\* starts any
OnePerFinalized ==
    IF AcceptedStep /\ HasPositive(ev'.m, game_session_data)
    THEN /\ Cardinality(Started) = 1
         /\ \A i \in Started :
               /\ tasks'[i].pc = "sleep"
               /\ tasks'[i].kind = "auto"
               /\ tasks'[i].wake = now + 2
    ELSE ev'.op = "msg" => Started = {}

\* C6 as stated: in automatic mode every accepted game_end with best score above
\* zero schedules exactly one submission, every other game_end none, and between
\* two consecutive game_start events of a rom at most one is scheduled for it.
C6_AsStated ==
    [][send_mode = "automatic" =>
          LET h == hist[RomName(ev'.m)]
          IN  /\ OnePerFinalized
              /\ (ev'.op = "msg" /\ Started # {})
                 => ~(h.autoAt # NoneInt /\ "game_start" \notin h.autoStarts)]_vars

\* C6 amended: in automatic mode every game_end that is handled (not dropped as
\* stale) and accepted (not plugin_unload, not debounced) with best score above zero
\* schedules exactly one deferred submission and every other message schedules
\* none; two automatic submissions of one rom with neither a game_start nor a
\* table_loaded for it between them are scheduled at least 10 seconds apart.
C6_OneAutomatic ==
    [][send_mode = "automatic" =>
          LET h == hist[RomName(ev'.m)]
          IN  /\ OnePerFinalized
              /\ (ev'.op = "msg" /\ Started # {} /\ h.autoAt # NoneInt /\ h.autoStarts = {})
                 => now - h.autoAt >= 10]_vars

\* a second game_end of a rom was accepted 10 seconds or more after the first with
\* no start in between, and each of the two has its own sleeping thread
C6_Witness ==
    LET h == hist[RomName(ev.m)]
    IN  /\ ev.op = "msg" /\ ev.res = "final"
        /\ send_mode = "automatic"
        /\ h.prevEndAt # NoneInt /\ h.prevStarts = {}
        /\ now - h.prevEndAt >= 10
        /\ tasks[1].pc = "sleep" /\ tasks[1].wake = h.prevEndAt + 2
        /\ tasks[2].pc = "sleep" /\ tasks[2].wake = now + 2

-----------------------------------------------------------------------------
(* C10 *)

\* C10 as stated: last_score is either entirely empty or has a non-empty rom_name
\* and a score above zero, and has_pending_score() is true exactly when submit()
\* would not reject with "No score available".
C10_AsStated ==
    /\ \/ last_score = EmptyScore
       \/ /\ last_score.rom_name \notin {None, ""}
          /\ last_score.score > 0
    /\ HasPendingScore(last_score) <=> ~NoScoreAvailable(last_score)

-----------------------------------------------------------------------------
(* C7 *)

\* thread i ends in this step with an error notification
FailsNow(i) ==
    tasks[i].pc # "done" /\ tasks'[i].pc = "done" /\ tasks'[i].note.title = "Error"

\* C7: a submission attempt that ends in failure (no screenshot, network error or
\* timeout, non-2xx status, 2xx with success false or absent, or any other error
\* notification) leaves last_score as it was, and has notified once.
C7_FailureKeepsScore ==
    [][\A i \in 1..MaxTasks :
          FailsNow(i) => last_score' = last_score /\ tasks'[i].notes = 1]_vars

\* a submission was refused or lost after its POST, and a later manual one has
\* posted the same rom_name and score, which is still pending
C7_Witness ==
    /\ tasks[1].pc = "done" /\ tasks[1].posts = 1 /\ tasks[1].note.title = "Error"
    /\ tasks[2].kind = "manual" /\ tasks[2].posts = 1
    /\ ev.op = "submit" /\ ev.t = 2 /\ ev.res = "posted"
    /\ tasks[2].rom = tasks[1].rom /\ tasks[2].score = tasks[1].score
    /\ last_score.rom_name = tasks[2].rom
    /\ ScoreField(last_score.score) = tasks[2].score

-----------------------------------------------------------------------------
(* C8 *)

\* C8 as stated: a thread whose POST (of a pending score) returned 2xx with success
\* true ends by calling the notification callback with the server's tableName and
\* the formatted score, and leaves last_score empty.
C8_AsStated ==
    [][\A i \in 1..MaxTasks :
          (/\ tasks[i].success
           /\ tasks[i].rom # None
           /\ tasks[i].score # T_None
           /\ tasks[i].pc # "done"
           /\ tasks'[i].pc = "done")
          => /\ tasks'[i].notes = 1
             /\ tasks'[i].note.title = "Score Submitted!"
             /\ tasks'[i].table # Missing => tasks'[i].note.table = tasks'[i].table
             /\ tasks'[i].note.score # <<>>
             /\ last_score' = EmptyScore
             /\ ~HasPendingScore(last_score')]_vars

-----------------------------------------------------------------------------
(* C9 *)

\* C9: a submit() that makes its checks while last_score is empty, or while the API
\* URL or key is not configured, ends there: one error notification, no screenshot
\* captured, no POST issued, last_score unchanged.
C9_Rejected ==
    [][\A i \in 1..MaxTasks :
          (/\ tasks[i].pc = "check"
           /\ tasks'[i] # tasks[i]
           /\ last_score = EmptyScore \/ ~api_configured)
          => /\ tasks'[i].pc = "done"
             /\ tasks'[i].notes = 1
             /\ tasks'[i].note.title = "Error"
             /\ tasks'[i].note.text =
                   IF last_score = EmptyScore THEN "No score available!"
                   ELSE "Leaderboard not configured!"
             /\ tasks'[i].shots = 0
             /\ tasks'[i].posts = 0
             /\ last_score' = last_score]_vars

\* one submit() was rejected for want of a score and, a score being pending since,
\* another for want of the configuration
C9_Witness ==
    /\ ~api_configured
    /\ tasks[1].pc = "done" /\ tasks[1].note.text = "No score available!"
    /\ tasks[2].pc = "done" /\ tasks[2].note.text = "Leaderboard not configured!"
    /\ tasks[1].shots = 0 /\ tasks[1].posts = 0
    /\ tasks[2].shots = 0 /\ tasks[2].posts = 0
    /\ last_score # EmptyScore

-----------------------------------------------------------------------------
(* C11 *)

\* the step is thread t of _run_websocket creating a WebSocketApp or connecting one
Connects == ev'.op = "loop" /\ ev'.res \in {"create", "open"}

\* C11 as stated: once stop() has cleared the running flag, closed self.ws and
\* returned, no thread of _run_websocket creates or opens a connection, however the
\* two threads interleave.
C11_AsStated ==
    [][(stop_pc = "returned" /\ stop_pc' = "returned") => ~Connects]_vars

-----------------------------------------------------------------------------
(* C12 *)

\* the threads of _run_websocket that have been started and have not returned
LiveLoops(ls) == {t \in 1..MaxStarts : ls[t].pc \notin {"unstarted", "exit"}}

\* C12: while stop() is never called, a thread of _run_websocket whose
\* run_forever() has returned or raised (connection lost, not opened, or an
\* exception) starts a wait, the wait ends only after the full 10 seconds and leads
\* back to the test of the running flag, after every such return another
\* WebSocketApp is created and run, and the thread never leaves the loop.
C12_Reconnect ==
    /\ [][\A t \in 1..MaxStarts :
            /\ (loops[t].pc \in {"after", "caught"} /\ loops'[t] # loops[t])
               => (loops'[t].pc = "sleep" /\ loops'[t].slept = 0)
            /\ (loops[t].pc = "sleep" /\ loops'[t].pc # "sleep")
               => (loops[t].slept = 10 /\ loops'[t].pc = "test")
            /\ (loops[t].pc = "test" /\ loops'[t] # loops[t])
               => loops'[t].pc = "create"]_vars
    /\ \A t \in 1..MaxStarts :
          (loops[t].pc \in {"after", "caught"})
             ~> (loops[t].pc = "run" /\ loops[t].conn = "new" /\ loops[t].slept = 10)
    /\ [](\A t \in 1..MaxStarts : loops[t].pc # "exit")

\* a thread has made another attempt after an exception and a full wait
C12_Witness ==
    /\ ev.op = "loop" /\ ev.res = "create"
    /\ loops[ev.t].pc = "run" /\ loops[ev.t].conn = "new"
    /\ loops[ev.t].slept = 10
    /\ running

-----------------------------------------------------------------------------
(* C13 *)

LiveHotkeys(hs) == {t \in 1..MaxStarts : hs[t] \in {"starting", "listening"}}

\* C13 as stated: start() with tracking disabled changes nothing (running stays
\* false, no thread is started); start() with tracking enabled while already
\* running leaves exactly one thread of _run_websocket and at most one hotkey
\* listener thread, as a single call does.
C13_AsStated ==
    [][ev'.op = "start" =>
          /\ ~enabled => /\ ~running'
                         /\ loops' = loops
                         /\ hotkeys' = hotkeys
          /\ (enabled /\ running)
             => /\ Cardinality(LiveLoops(loops')) = 1
                /\ Cardinality(LiveHotkeys(hotkeys')) <= 1]_vars

-----------------------------------------------------------------------------
(* C14 *)

\* C14: every call of submit() that ends has called the notification callback
\* exactly once, whichever way it ends (no pending score, configuration missing,
\* no screenshot, transport failure, refusal by the server, or success), and no
\* call ever calls it twice.
C14_NotifyOnce ==
    [][\A i \in 1..MaxTasks :
          /\ tasks'[i].notes <= 1
          /\ (tasks[i].pc # "done" /\ tasks'[i].pc = "done") => tasks'[i].notes = 1
          /\ tasks'[i].notes = 1 => tasks'[i].note.title \in {"Error", "Score Submitted!"}]_vars

\* one submit() has ended in success and another without a screenshot, each having
\* notified once
C14_Witness ==
    /\ tasks[1].pc = "done" /\ tasks[1].note.title = "Score Submitted!" /\ tasks[1].notes = 1
    /\ tasks[2].pc = "done" /\ tasks[2].note.text = "Failed to capture screenshot"
    /\ tasks[2].notes = 1

-----------------------------------------------------------------------------
(* C15 *)

\* a text of digits, ',' and '.' only
IsNumeric(raw) == \A i \in 1..Len(raw) : IsDigit(raw[i]) \/ raw[i] \in {",", "."}

\* the number its digits spell, 0 if it has none
NumericValue(raw) == DigitsValue(SelectSeq(raw, IsDigit), 0)

\* the values of the numeric entries of a list
NumericValues(entries) ==
    {NumericValue(entries[i].score) : i \in {j \in 1..Len(entries) : IsNumeric(entries[j].score)}}

\* C15: the score loop reads an entry made of digits, ',' and '.' as the number its
\* digits spell ('1,234,500' is 1234500, '000450' is 450, no digit at all is 0) and
\* passes over any other entry; so an entry that is not numeric or is worth 0 never
\* raises the best score, the entries after it are still read, and the best score
\* at the end is above zero exactly when some numeric entry is, and is then the
\* highest of them.
C15_Parsing ==
    [][scan' # scan =>
          LET raw == Head(scan.entries).score
          IN  /\ ParseScore(T_1234500) = [ok |-> TRUE, val |-> 1234500]
              /\ ParseScore(T_000450) = [ok |-> TRUE, val |-> 450]
              /\ ParseScore(raw).ok = IsNumeric(raw)
              /\ IsNumeric(raw) => ParseScore(raw).val = NumericValue(raw)
              /\ scan'.entries = Tail(scan.entries)
              /\ scan'.best = IF IsNumeric(raw) /\ NumericValue(raw) > scan.best
                              THEN NumericValue(raw) ELSE scan.best
              /\ scan'.entries = <<>> =>
                    /\ scan'.best = BestOfList(scan'.seen, 0)
                    /\ scan'.best = MaxOf(NumericValues(scan'.seen) \cup {0})]_vars

\* a list whose first entry is not numeric and whose second, with a separator and
\* a leading zero, is worth 4 has been read to its end: the best score is 4
C15_Witness ==
    /\ scan.entries = <<>>
    /\ Len(scan.seen) = 2
    /\ ~IsNumeric(scan.seen[1].score)
    /\ scan.seen[2].score = <<"0", "4">> \/ scan.seen[2].score = <<",", "4">>
    /\ scan.best = 4

-----------------------------------------------------------------------------
(* C16 *)

\* what an accepted game_end makes of the scores S it is to judge by
FinalizedFrom(S) ==
    IF S # {} /\ MaxOf(S) > 0
    THEN last_score' = [rom_name |-> RomName(ev'.m), score |-> MaxOf(S), timestamp |-> now]
    ELSE last_score' = last_score

\* C16: an accepted game_end that carries a non-empty score list finalizes by that
\* list alone, whatever the accumulated session of its rom holds (a higher score,
\* or the only score above zero); the session is judged by only when the list is
\* absent or empty.
C16_Precedence ==
    [][AcceptedStep =>
          IF ev'.m.scores # <<>>
          THEN FinalizedFrom(ParsedOfList(ev'.m.scores))
          ELSE FinalizedFrom(ParsedOfDict(DictGet(game_session_data, RomName(ev'.m),
                                                  EmptyDict)))]_vars

\* a game_end whose own scores are all worth nothing was accepted while the session
\* of its rom held a score above zero: nothing is pending
C16_Witness ==
    /\ ev.op = "msg" /\ ev.res = "nofinal"
    /\ ev.m.scores # <<>>
    /\ \E x \in ParsedOfDict(hist[RomName(ev.m)].popped) : x > 0
    /\ last_score = EmptyScore

-----------------------------------------------------------------------------
(* C17 *)

\* C17: an accepted game_end whose selected source holds no score above zero (no
\* source, an empty session, or scores all zero or unparseable) leaves last_score
\* unchanged and starts no submission thread, yet records the time in
\* _last_game_end for its rom and removes the session of its rom.
C17_NothingFinalized ==
    [][(AcceptedStep /\ ~HasPositive(ev'.m, game_session_data))
       => /\ last_score' = last_score
          /\ tasks' = tasks
          /\ RomName(ev'.m) \in DOMAIN last_game_end'
          /\ last_game_end'[RomName(ev'.m)] = now
          /\ RomName(ev'.m) \notin DOMAIN game_session_data']_vars

\* in automatic mode, while a score of another rom is pending, a game_end without
\* a list was accepted for a rom whose session held only scores worth nothing
C17_Witness ==
    /\ ev.op = "msg" /\ ev.res = "nofinal"
    /\ ev.m.scores = <<>>
    /\ send_mode = "automatic"
    /\ DOMAIN hist[RomName(ev.m)].popped # {}
    /\ last_score # EmptyScore /\ last_score.rom_name # RomName(ev.m)
    /\ RomName(ev.m) \in DOMAIN last_game_end /\ last_game_end[RomName(ev.m)] = now
    /\ RomName(ev.m) \notin DOMAIN game_session_data
    /\ Cardinality({i \in 1..MaxTasks : tasks[i].pc # "idle"}) = 1

-----------------------------------------------------------------------------
(* C18 *)

\* the label without 'Player' and without the blanks around it
Normalized(p_label) == Strip(RemoveAll(p_label, <<"P", "l", "a", "y", "e", "r">>))

\* the step is a handled current_scores that upserts every entry of its payload
\* into the slot Slot makes of its label, and touches nothing else
Upserts(Slot(_)) ==
    (ev'.op = "msg" /\ ev'.res = "scores") =>
        LET rom == RomName(ev'.m)
            es == ev'.m.scores
            old == DictGet(game_session_data, rom, EmptyDict)
            named == {Slot(es[i].player) : i \in 1..Len(es)}
        IN  /\ DOMAIN game_session_data' = DOMAIN game_session_data \cup {rom}
            /\ DOMAIN game_session_data'[rom] = DOMAIN old \cup named
            /\ \A i \in 1..Len(es) :
                  (\A j \in (i + 1)..Len(es) : Slot(es[j].player) # Slot(es[i].player))
                     => game_session_data'[rom][Slot(es[i].player)] =
                           [score |-> es[i].score, ball |-> ev'.m.current_ball]
            /\ \A k \in DOMAIN old \ named : game_session_data'[rom][k] = old[k]
            /\ \A r \in DOMAIN game_session_data \ {rom} :
                  game_session_data'[r] = game_session_data[r]
            /\ last_game_end' = last_game_end
            /\ last_score' = last_score
            /\ tasks' = tasks

\* C18 as stated: a current_scores creates the session of its rom if absent and
\* overwrites, for each entry, the slot named by the label without 'Player' and
\* surrounding blanks with the entry's score and the current ball, the last entry
\* of a slot winning; other slots, other sessions, _last_game_end and last_score
\* are unchanged.
C18_AsStated == [][Upserts(Normalized)]_vars

\* C18 amended: the same, the slot being the label without 'Player' and the blanks
\* around it if the label contains 'Player', and the label as it is (blanks kept)
\* otherwise.
C18_Upsert == [][Upserts(PlayerId)]_vars

\* after scores for Player1 and Player2 at ball 1, a current_scores for "2" alone
\* at ball 3 was handled: slot 2 holds the new score and ball, slot 1 the old ones
C18_Witness ==
    /\ ev.op = "msg" /\ ev.res = "scores" /\ ev.m.scores = ScoresB.scores
    /\ "X" \in DOMAIN game_session_data
    /\ DOMAIN game_session_data["X"] = {<<"1">>, <<"2">>}
    /\ game_session_data["X"][<<"1">>] = [score |-> T_10000, ball |-> 1]
    /\ game_session_data["X"][<<"2">>] = [score |-> T_000450, ball |-> 3]

-----------------------------------------------------------------------------
(* C19 *)

\* the sessions of the roms other than rom are what they were
OtherSessionsKept(rom) ==
    /\ DOMAIN game_session_data' \ {rom} = DOMAIN game_session_data \ {rom}
    /\ \A r \in DOMAIN game_session_data \ {rom} : game_session_data'[r] = game_session_data[r]

-----------------------------------------------------------------------------
(* C20 *)

\* the debounce record and the session of rom are what they were
RomKept(rom) ==
    /\ rom \in DOMAIN last_game_end' <=> rom \in DOMAIN last_game_end
    /\ rom \in DOMAIN last_game_end => last_game_end'[rom] = last_game_end[rom]
    /\ rom \in DOMAIN game_session_data' <=> rom \in DOMAIN game_session_data
    /\ rom \in DOMAIN game_session_data => game_session_data'[rom] = game_session_data[rom]

\* C20: a game_end is rejected as a duplicate only on account of an accepted
\* game_end of its own rom (less than 10 seconds old, no start of that rom since),
\* never of another rom's, however recent; and a handled game_start, table_loaded
\* or accepted game_end of one rom leaves the debounce record and the session of
\* every other rom as they were.
C20_PerRom ==
    [][LET rom == RomName(ev'.m)
       IN  /\ (ev'.op = "msg" /\ ev'.res = "duplicate")
              => /\ hist[rom].endAt # NoneInt
                 /\ now - hist[rom].endAt < 10
                 /\ hist[rom].endStarts = {}
           /\ (StartStep \/ AcceptedStep)
              => \A other \in RomIds \ {rom} : RomKept(other)]_vars

\* a game_end was accepted for one rom at the very time a game_end of another rom
\* had been accepted
C20_Witness ==
    /\ ev.op = "msg" /\ ev.res \in {"final", "nofinal"}
    /\ hist[RomName(ev.m)].endAt = now
    /\ \E other \in RomIds \ {RomName(ev.m)} :
          /\ hist[other].endAt = now
          /\ other \in DOMAIN last_game_end
          /\ last_game_end[other] = now
          /\ hist[other].endStarts = {}

-----------------------------------------------------------------------------
(* C21 *)

\* C21: a call of submit() issues at most one POST and, once ended, does nothing
\* more; a submission thread is started only by the hotkey or, in automatic mode,
\* by an accepted game_end that finalizes a score, one thread at a time; in manual
\* mode every thread, hence every POST, comes from the hotkey.
C21_NoRetry ==
    [][/\ \A i \in 1..MaxTasks :
            /\ tasks'[i].posts <= 1
            /\ tasks[i].pc = "done" => tasks'[i] = tasks[i]
            /\ tasks'[i].posts = 1 => tasks'[i].kind \in {"manual", "auto"}
            /\ (send_mode = "manual" /\ tasks'[i].pc # "idle") => tasks'[i].kind = "manual"
       /\ Started # {}
            => /\ Cardinality(Started) = 1
               /\ \/ ev'.op = "hotkey"
                  \/ ev'.op = "msg" /\ ev'.res = "final" /\ send_mode = "automatic"]_vars

\* in manual mode a submission failed after its POST, the score is still pending,
\* time has passed, and no other thread was started
C21_Witness ==
    /\ send_mode = "manual"
    /\ tasks[1].pc = "done" /\ tasks[1].posts = 1 /\ tasks[1].note.title = "Error"
    /\ tasks[2].pc = "idle"
    /\ last_score # EmptyScore
    /\ ev.op = "tick"

-----------------------------------------------------------------------------
(* C22 *)

\* the message is text that is not JSON, JSON that is not an object, a message of
\* unknown type, or a current_scores or game_end whose scores are not a list of
\* objects
IsMalformed(m) ==
    \/ m.type \notin {"table_loaded", "game_start", "game_end", "current_scores"}
    \/ /\ m.type \in {"game_end", "current_scores"}
       /\ \/ m.scores = NotIterable
          \/ \E i \in 1..Len(m.scores) : ~IsDictEntry(m.scores[i])

\* C22 as stated: a malformed message leaves the sessions, the debounce records
\* and last_score unchanged, starts no submission (nobody is notified), and leaves
\* the connection dispatching.
C22_AsStated ==
    [][(ev'.op = "msg" /\ IsMalformed(ev'.m))
       => /\ game_session_data' = game_session_data
          /\ last_game_end' = last_game_end
          /\ last_score' = last_score
          /\ tasks' = tasks
          /\ ws_open']_vars

-----------------------------------------------------------------------------
(* C23 *)

\* C23 as stated: once stop() has returned, and unless start() or stop() is called
\* again, every thread of _run_websocket eventually returns; none stays in
\* run_forever() or in the wait.
C23_AsStated ==
    (stop_pc = "returned") ~> (LiveLoops(loops) = {} \/ stop_pc # "returned")

-----------------------------------------------------------------------------
(* C24 *)

\* C24 as stated: the rom_name and score that an automatic submission posts are
\* those that the game_end which scheduled it finalized, whatever is finalized
\* during the two seconds in between.
C24_AsStated ==
    [][(ev'.op = "submit" /\ ev'.res \in {"neterr", "non2xx", "refused", "posted"})
       => LET i == ev'.t
          IN  tasks[i].kind = "auto"
                 => /\ tasks[i].rom = tasks[i].due.rom_name
                    /\ tasks[i].score = PyStr(tasks[i].due.score)]_vars

-----------------------------------------------------------------------------
(* C25 *)

\* C25 as stated: what line 403 erases is the pending score that this thread
\* posted (or nothing, when it was erased before); a score finalized while the
\* submission was in flight is not erased by it.
C25_AsStated ==
    [][(ev'.op = "submit" /\ ev'.res = "cleared")
       => LET i == ev'.t
          IN  \/ last_score = EmptyScore
              \/ /\ last_score.rom_name = tasks[i].rom
                 /\ ScoreField(last_score.score) = tasks[i].score]_vars

-----------------------------------------------------------------------------
(* C26 *)

\* the text without its thousands separators
RECURSIVE Unformat(_)
Unformat(t) ==
    IF t = <<>> THEN <<>>
    ELSE IF Head(t) = "," THEN Unformat(Tail(t)) ELSE <<Head(t)>> \o Unformat(Tail(t))

\* C26 as stated: the score read at line 379 belongs to the same pending score as
\* the rom_name read at line 378, which is a finalized one, and the score shown by
\* the success notification is the score that was posted.
C26_AsStated ==
    [][/\ (ev'.op = "submit" /\ ev'.res = "read_score")
          => /\ last_score # EmptyScore
             /\ tasks[ev'.t].rom = last_score.rom_name
       /\ (ev'.op = "submit" /\ ev'.res = "notified")
          => Unformat(tasks'[ev'.t].note.score) = tasks[ev'.t].score]_vars

-----------------------------------------------------------------------------
(* C27 *)

\* C27: a game_end rejected by the debounce check leaves the debounce records
\* (that of its rom included), the sessions with their accumulated scores, the
\* pending score and the submission threads as they were; and a game_end handled
\* 10 seconds or more after the last accepted game_end of its rom is accepted,
\* whatever was rejected in between.
C27_RejectedChangesNothing ==
    [][LET rom == RomName(ev'.m)
       IN  /\ (ev'.op = "msg" /\ ev'.res = "duplicate")
              => /\ UNCHANGED <<last_game_end, game_session_data, last_score, tasks>>
                 /\ last_game_end[rom] = hist[rom].endAt
           /\ (/\ EndStep
               /\ ~IsStale(ev'.m, ws_connected_at)
               /\ hist[rom].endAt # NoneInt
               /\ now - hist[rom].endAt >= DebounceWindow)
              => AcceptedStep]_vars

\* a repeat was just rejected 5 seconds after the accepted game_end of its rom,
\* while the rom has a session holding scores
C27_Witness ==
    /\ ev.op = "msg"
    /\ ev.res = "duplicate"
    /\ last_game_end[RomName(ev.m)] = hist[RomName(ev.m)].endAt
    /\ hist[RomName(ev.m)].endAt = now - TickLen
    /\ RomName(ev.m) \in DOMAIN game_session_data
    /\ DOMAIN game_session_data[RomName(ev.m)] # {}

====
